---------------------------- MODULE Spec2Model ----------------------------
(***************************************************************************)
(* Process-Scheduler-Simulation: the Process state machine, the shared     *)
(* Scheduler.run loop and the six scheduling policies (FCFS, RR, RR with   *)
(* priority, SJN, SRTF, MLFQ).                                             *)
(*                                                                         *)
(* Time is counted in ticks of 0.001 time units, the value of              *)
(* Scheduler.context_switch_overhead, so that every clock value of a run   *)
(* over integer arrival and burst times is an integer.  The arithmetic is  *)
(* exact: the rounding of Python floats is not modelled.                   *)
(***************************************************************************)
EXTENDS Integers, Sequences, FiniteSets, TLC

\* ------------------------------------------------------------------ bounds
MaxProcs == 2
MaxArrival == 2
MaxBurst == 3
MaxPriority == 1
MaxLimit == 2          \* the time limit handed to run(), in time units
MaxDispatches == 12    \* dispatches of one run the model follows

\* --------------------------------------------------------------- constants
Scale == 1000                     \* ticks per time unit
context_switch_overhead == 1      \* 0.001 time units
None == -1                        \* Python's None in an integer field

Ticks(x) == x * Scale

Policies == {"FCFS", "RR", "RRP", "SJN", "SRTF", "MLFQ"}

\* ------------------------------------------------------------- small helpers
Max2(a, b) == IF a >= b THEN a ELSE b

SetMin(S) == CHOOSE x \in S : \A y \in S : x <= y

SetMax(S) == CHOOSE x \in S : \A y \in S : x >= y

RECURSIVE remove(_, _)
\* list.remove(x): drops the first occurrence of x
remove(q, x) ==
    IF q = <<>> THEN <<>>
    ELSE IF Head(q) = x THEN Tail(q)
    ELSE <<Head(q)>> \o remove(Tail(q), x)

InSeq(q, x) == \E k \in DOMAIN q : q[k] = x

\* ------------------------------------------------------------------ Process
\* Process.__init__: a fresh process in state NEW
NewProcess(pid, arrival, burst, prio) ==
    [ pid                    |-> pid,
      arrival_time           |-> arrival,
      burst_time             |-> burst,
      remaining_time         |-> burst,
      priority               |-> prio,
      state                  |-> "NEW",
      start_time             |-> None,
      finish_time            |-> None,
      waiting_time           |-> 0,
      turnaround_time        |-> 0,
      response_time          |-> None,
      context_switches       |-> 0,
      execution_history      |-> <<>>,
      time_in_ready_queue    |-> 0,
      last_state_change_time |-> arrival ]

\* Process.update_state
update_state(p, new_state, current_time) ==
    [ p EXCEPT
        !.time_in_ready_queue =
            IF p.state = "READY"
            THEN p.time_in_ready_queue + (current_time - p.last_state_change_time)
            ELSE p.time_in_ready_queue,
        !.state = new_state,
        !.last_state_change_time = current_time ]

\* faulty variant of enter_running: response_time is written at every transition
\* into RUNNING
enter_running_always(p, current_time) ==
    IF p.state # "RUNNING"
    THEN LET q == update_state(p, "RUNNING", current_time) IN
         [ q EXCEPT
             !.start_time = IF q.start_time = None THEN current_time
                            ELSE q.start_time,
             !.response_time = Max2(0, current_time - q.arrival_time) ]
    ELSE p

\* Process.execute, first half: the transition into RUNNING
enter_running(p, current_time) ==
    IF p.state # "RUNNING"
    THEN LET q == update_state(p, "RUNNING", current_time) IN
         IF q.response_time = None
         THEN [ q EXCEPT
                  !.start_time = IF q.start_time = None THEN current_time
                                 ELSE q.start_time,
                  !.response_time = Max2(0, current_time - q.arrival_time) ]
         ELSE q
    ELSE p

\* faulty variant of execute: the time slice is ignored, every dispatch runs to completion
execute_to_completion(p, time_slice, current_time) ==
    LET q == enter_running(p, current_time)
        executed_time == q.remaining_time
        r == update_state([q EXCEPT !.remaining_time = 0], "TERMINATED",
                          current_time + executed_time)
    IN  [ r EXCEPT !.finish_time = current_time + executed_time,
                   !.execution_history =
                       Append(r.execution_history, <<current_time, executed_time>>) ]

\* faulty variant of execute: a time slice equal to the remaining time does not
\* complete the process
execute_strict(p, time_slice, current_time) ==
    LET q == enter_running(p, current_time) IN
    IF time_slice = None \/ time_slice > q.remaining_time
    THEN LET executed_time == q.remaining_time
             r == update_state([q EXCEPT !.remaining_time = 0], "TERMINATED",
                               current_time + executed_time)
         IN  [ r EXCEPT !.finish_time = current_time + executed_time,
                        !.execution_history =
                            Append(r.execution_history, <<current_time, executed_time>>) ]
    ELSE [ q EXCEPT !.remaining_time = q.remaining_time - time_slice,
                    !.execution_history =
                        Append(q.execution_history, <<current_time, time_slice>>) ]

\* Process.execute(time_slice, current_time); time_slice = None runs to completion.
\* The executed duration is the second component of the last history entry.
execute(p, time_slice, current_time) ==
    LET q == enter_running(p, current_time) IN
    IF time_slice = None \/ time_slice >= q.remaining_time
    THEN LET executed_time == q.remaining_time
             r == update_state([q EXCEPT !.remaining_time = 0], "TERMINATED",
                               current_time + executed_time)
         IN  [ r EXCEPT !.finish_time = current_time + executed_time,
                        !.execution_history =
                            Append(r.execution_history, <<current_time, executed_time>>) ]
    ELSE [ q EXCEPT !.remaining_time = q.remaining_time - time_slice,
                    !.execution_history =
                        Append(q.execution_history, <<current_time, time_slice>>) ]

\* the duration returned by the last execute of p
executed_of(p) == p.execution_history[Len(p.execution_history)][2]

\* faulty variant of preempt: the process is left RUNNING
preempt_ignored(p) == p

\* faulty variant of preempt: the process is moved to READY whatever its state
preempt_any_state(p) ==
    LET h == p.execution_history[Len(p.execution_history)]
        q == update_state(p, "READY",
               p.last_state_change_time + (h[1] + h[2] - p.last_state_change_time))
    IN  [ q EXCEPT !.context_switches = q.context_switches + 1 ]

\* Process.preempt
preempt(p) ==
    IF p.state = "RUNNING"
    THEN LET h == p.execution_history[Len(p.execution_history)]
             q == update_state(p, "READY",
                    p.last_state_change_time + (h[1] + h[2] - p.last_state_change_time))
         IN  [ q EXCEPT !.context_switches = q.context_switches + 1 ]
    ELSE p

\* faulty variant of activate: the process is made READY whatever its state
activate_any_state(p, current_time) ==
    [ p EXCEPT !.state = "READY",
               !.start_time = IF p.start_time = None THEN current_time
                              ELSE p.start_time,
               !.last_state_change_time = current_time ]

\* Process.activate
activate(p, current_time) ==
    IF p.state = "NEW"
    THEN [ p EXCEPT !.state = "READY",
                    !.start_time = IF p.start_time = None THEN current_time
                                   ELSE p.start_time,
                    !.last_state_change_time = current_time ]
    ELSE p

\* faulty variant of calculate_metrics: the pending ready time is added but the
\* baseline last_state_change_time is kept
calculate_metrics_baseline_kept(p, current_time) ==
    LET a == IF p.state = "READY"
             THEN [ p EXCEPT !.time_in_ready_queue =
                                 p.time_in_ready_queue
                                 + (current_time - p.last_state_change_time) ]
             ELSE p
        b == IF a.finish_time = None THEN [a EXCEPT !.finish_time = current_time] ELSE a
        c == IF b.start_time = None THEN [b EXCEPT !.start_time = current_time] ELSE b
    IN  [ c EXCEPT !.turnaround_time = Max2(0, c.finish_time - c.arrival_time),
                   !.waiting_time = c.time_in_ready_queue ]

\* Process.calculate_metrics: the process after the call
calculate_metrics(p, current_time) ==
    LET a == IF p.state = "READY"
             THEN [ p EXCEPT !.time_in_ready_queue =
                                 p.time_in_ready_queue
                                 + (current_time - p.last_state_change_time),
                             !.last_state_change_time = current_time ]
             ELSE p
        b == IF a.finish_time = None THEN [a EXCEPT !.finish_time = current_time] ELSE a
        c == IF b.start_time = None THEN [b EXCEPT !.start_time = current_time] ELSE b
    IN  [ c EXCEPT !.turnaround_time = Max2(0, c.finish_time - c.arrival_time),
                   !.waiting_time = c.time_in_ready_queue ]

\* Scheduler.reset: the fields of a process that reset() writes
reset_process(p) ==
    [ p EXCEPT !.remaining_time = p.burst_time,
               !.state = "NEW",
               !.start_time = None,
               !.finish_time = None,
               !.waiting_time = 0,
               !.turnaround_time = 0,
               !.response_time = None,
               !.context_switches = 0,
               !.execution_history = <<>> ]

\* Process.calculate_metrics: the returned row
metrics_row(p) ==
    [ pid              |-> p.pid,
      burst_time       |-> p.burst_time,
      priority         |-> p.priority,
      waiting_time     |-> p.waiting_time,
      turnaround_time  |-> p.turnaround_time,
      response_time    |-> p.response_time,
      context_switches |-> p.context_switches ]

\* --------------------------------------------------------------- policies
\* A scheduler object is a record S with the fields processes, ready_queue,
\* priority_queues (RRP), queues / process_queue_map / time_since_last_boost
\* (MLFQ) and time.  Processes are referred to by their index in S.processes.

\* FCFSScheduler.add_to_ready_queue
FCFS_add_to_ready_queue(S, i) == [S EXCEPT !.ready_queue = Append(@, i)]

\* RRScheduler.add_to_ready_queue
RR_add_to_ready_queue(S, i) == [S EXCEPT !.ready_queue = Append(@, i)]

\* SJNScheduler.add_to_ready_queue
SJN_add_to_ready_queue(S, i) == [S EXCEPT !.ready_queue = Append(@, i)]

\* SRTFScheduler.add_to_ready_queue
SRTF_add_to_ready_queue(S, i) == [S EXCEPT !.ready_queue = Append(@, i)]

\* RRPriorityScheduler.add_to_ready_queue
RRP_add_to_ready_queue(S, i) ==
    LET pr == S.processes[i].priority
        pq == [ k \in DOMAIN S.priority_queues \cup {pr} |->
                  IF k \in DOMAIN S.priority_queues THEN S.priority_queues[k]
                  ELSE <<>> ]
    IN  [ S EXCEPT !.priority_queues = [pq EXCEPT ![pr] = Append(@, i)],
                   !.ready_queue = Append(@, i) ]

\* MLFQScheduler.add_to_ready_queue
MLFQ_add_to_ready_queue(S, i) ==
    LET pid == S.processes[i].pid
        known == pid \in DOMAIN S.process_queue_map
        queue_level == IF known THEN S.process_queue_map[pid] ELSE 0
        map == [ k \in DOMAIN S.process_queue_map \cup {pid} |->
                   IF k = pid THEN queue_level ELSE S.process_queue_map[k] ]
    IN  [ S EXCEPT !.ready_queue = Append(@, i),
                   !.process_queue_map = map,
                   !.queues = [@ EXCEPT ![queue_level] = Append(@, i)] ]

\* the add_to_ready_queue of the scheduler's class
add_to_ready_queue(pol, S, i) ==
    CASE pol = "FCFS" -> FCFS_add_to_ready_queue(S, i)
      [] pol = "RR"   -> RR_add_to_ready_queue(S, i)
      [] pol = "RRP"  -> RRP_add_to_ready_queue(S, i)
      [] pol = "SJN"  -> SJN_add_to_ready_queue(S, i)
      [] pol = "SRTF" -> SRTF_add_to_ready_queue(S, i)
      [] pol = "MLFQ" -> MLFQ_add_to_ready_queue(S, i)

\* FCFSScheduler.schedule
FCFS_schedule(S) == IF S.ready_queue = <<>> THEN None ELSE S.ready_queue[1]

\* faulty variant of RRScheduler.schedule: the tail of the queue instead of its head
RR_schedule_last(S) ==
    IF S.ready_queue = <<>> THEN None ELSE S.ready_queue[Len(S.ready_queue)]

\* RRScheduler.schedule
RR_schedule(S) == IF S.ready_queue = <<>> THEN None ELSE S.ready_queue[1]

\* faulty variant of shortest_process: the last process of minimal remaining time
shortest_process_last(S) ==
    LET q == S.ready_queue
        m == SetMin({ S.processes[q[k]].remaining_time : k \in DOMAIN q })
    IN  q[SetMax({ k \in DOMAIN q : S.processes[q[k]].remaining_time = m })]

\* min(queue, key = remaining_time): the first process of minimal remaining time
shortest_process(S) ==
    LET q == S.ready_queue
        m == SetMin({ S.processes[q[k]].remaining_time : k \in DOMAIN q })
    IN  q[SetMin({ k \in DOMAIN q : S.processes[q[k]].remaining_time = m })]

\* SJNScheduler.schedule
SJN_schedule(S) == IF S.ready_queue = <<>> THEN None ELSE shortest_process(S)

\* faulty variant of SRTFScheduler.schedule: the head of the queue
SRTF_schedule_head(S) == IF S.ready_queue = <<>> THEN None ELSE S.ready_queue[1]

\* SRTFScheduler.schedule
SRTF_schedule(S) == IF S.ready_queue = <<>> THEN None ELSE shortest_process(S)

\* faulty variant of get_highest_priority_process: the priorities are scanned in
\* ascending order
get_lowest_priority_process(S) ==
    LET nonempty == { k \in DOMAIN S.priority_queues : S.priority_queues[k] # <<>> }
    IN  IF nonempty = {} THEN None ELSE S.priority_queues[SetMin(nonempty)][1]

\* RRPriorityScheduler.get_highest_priority_process
get_highest_priority_process(S) ==
    LET nonempty == { k \in DOMAIN S.priority_queues : S.priority_queues[k] # <<>> }
    IN  IF nonempty = {} THEN None ELSE S.priority_queues[SetMax(nonempty)][1]

\* RRPriorityScheduler.schedule
RRP_schedule(S) == get_highest_priority_process(S)

RECURSIVE concat_levels(_, _, _)
\* queues[l] followed by queues[l+1] ... queues[n-1]
concat_levels(queues, l, n) ==
    IF l >= n THEN <<>> ELSE queues[l] \o concat_levels(queues, l + 1, n)

\* faulty variant of _boost_priorities: the recorded levels are left as they are
boost_priorities_levels_kept(S, cfg) ==
    LET n == cfg.num_queues
    IN  [ S EXCEPT !.queues = [ l \in 0..(n - 1) |->
                                  IF l = 0 THEN concat_levels(S.queues, 0, n) ELSE <<>> ],
                   !.time_since_last_boost = 0 ]

\* MLFQScheduler._boost_priorities
boost_priorities(S, cfg) ==
    LET n == cfg.num_queues
        moved == { S.processes[i].pid :
                     i \in { j \in 1..Len(S.processes) :
                               \E l \in 1..(n - 1) : InSeq(S.queues[l], j) } }
    IN  [ S EXCEPT !.queues = [ l \in 0..(n - 1) |->
                                  IF l = 0 THEN concat_levels(S.queues, 0, n) ELSE <<>> ],
                   !.process_queue_map = [ k \in DOMAIN @ |->
                                             IF k \in moved THEN 0 ELSE @[k] ],
                   !.time_since_last_boost = 0 ]

\* faulty variant of the boost check: the boost waits until the interval is exceeded
MLFQ_boosted_late(S, cfg) ==
    IF S.time_since_last_boost > cfg.boost_interval THEN boost_priorities(S, cfg) ELSE S

\* MLFQScheduler.schedule, the boost check: the scheduler after it
MLFQ_boosted(S, cfg) ==
    IF S.time_since_last_boost >= cfg.boost_interval THEN boost_priorities(S, cfg) ELSE S

\* faulty variant of MLFQ_schedule: the queues are scanned from the last level up
MLFQ_schedule_from_last(S, cfg) ==
    LET nonempty == { l \in 0..(cfg.num_queues - 1) : S.queues[l] # <<>> }
    IN  IF nonempty = {} THEN None ELSE S.queues[SetMax(nonempty)][1]

\* MLFQScheduler.schedule, the scan of the queues (after the boost check)
MLFQ_schedule(S, cfg) ==
    LET nonempty == { l \in 0..(cfg.num_queues - 1) : S.queues[l] # <<>> }
    IN  IF nonempty = {} THEN None ELSE S.queues[SetMin(nonempty)][1]

\* MLFQScheduler.__init__: quantum_for_queue[level]
quantum_for_queue(cfg, level) == cfg.base_quantum * (2 ^ level)

\* faulty variant of demote_process: the recorded level is left as it is
demote_process_skipped(S, cfg, i) == S

\* MLFQScheduler.demote_process
demote_process(S, cfg, i) ==
    LET pid == S.processes[i].pid
        current_level == S.process_queue_map[pid]
    IN  IF current_level >= cfg.num_queues - 1 THEN S
        ELSE [ S EXCEPT !.process_queue_map[pid] = current_level + 1 ]

\* ------------------------------------------------- execute_process, per policy
terminated(S, i) == S.processes[i].state = "TERMINATED"

\* faulty variant of FCFS_execute_process: the process runs for one time unit and
\* stays in the queue while it is unfinished
FCFS_execute_process_sliced(S, i) ==
    LET p == execute(S.processes[i], Ticks(1), 0) IN
    [ S EXCEPT !.ready_queue = IF p.state = "TERMINATED" THEN remove(@, i) ELSE @,
               !.processes[i] = p,
               !.time = @ + executed_of(p) ]

\* FCFSScheduler.execute_process: process.execute() leaves current_time at 0
FCFS_execute_process(S, i) ==
    LET p == execute(S.processes[i], None, 0) IN
    [ S EXCEPT !.ready_queue = remove(@, i),
               !.processes[i] = p,
               !.time = @ + executed_of(p) ]

\* faulty variant of RR_execute_process: an unfinished process goes back to the
\* front of the queue
RR_execute_process_front(S, cfg, i) ==
    LET p == execute(S.processes[i], cfg.time_quantum, 0)
        T == [ S EXCEPT !.ready_queue = remove(@, i),
                        !.processes[i] = p,
                        !.time = @ + executed_of(p) ]
    IN  IF ~terminated(T, i) THEN [T EXCEPT !.ready_queue = <<i>> \o @] ELSE T

\* faulty variant of RR_execute_process: an unfinished process is not put back
\* at the end of the queue
RR_execute_process_dropped(S, cfg, i) ==
    LET p == execute(S.processes[i], cfg.time_quantum, 0) IN
    [ S EXCEPT !.ready_queue = remove(@, i),
               !.processes[i] = p,
               !.time = @ + executed_of(p) ]

\* RRScheduler.execute_process: process.execute(time_quantum) leaves current_time at 0
RR_execute_process(S, cfg, i) ==
    LET p == execute(S.processes[i], cfg.time_quantum, 0)
        T == [ S EXCEPT !.ready_queue = remove(@, i),
                        !.processes[i] = p,
                        !.time = @ + executed_of(p) ]
    IN  IF ~terminated(T, i) THEN RR_add_to_ready_queue(T, i) ELSE T

\* faulty variant of RRP_execute_process: the clock is not advanced by the
\* executed time
RRP_execute_process_clock_kept(S, cfg, i) ==
    LET p == execute(S.processes[i], cfg.time_quantum, S.time)
        T == [ S EXCEPT !.ready_queue = remove(@, i),
                        !.priority_queues[S.processes[i].priority] = remove(@, i),
                        !.processes[i] = p ]
    IN  IF ~terminated(T, i) THEN RRP_add_to_ready_queue(T, i) ELSE T

\* RRPriorityScheduler.execute_process
RRP_execute_process(S, cfg, i) ==
    LET p == execute(S.processes[i], cfg.time_quantum, S.time)
        T == [ S EXCEPT !.ready_queue = remove(@, i),
                        !.priority_queues[S.processes[i].priority] = remove(@, i),
                        !.processes[i] = p,
                        !.time = @ + executed_of(p) ]
    IN  IF ~terminated(T, i) THEN RRP_add_to_ready_queue(T, i) ELSE T

\* variant of SJNScheduler.execute_process that passes the clock to execute
SJN_execute_process_at_clock(S, i) ==
    LET p == execute(S.processes[i], None, S.time) IN
    [ S EXCEPT !.ready_queue = remove(@, i),
               !.processes[i] = p,
               !.time = @ + executed_of(p) ]

\* SJNScheduler.execute_process: process.execute() leaves current_time at 0
SJN_execute_process(S, i) ==
    LET p == execute(S.processes[i], None, 0) IN
    [ S EXCEPT !.ready_queue = remove(@, i),
               !.processes[i] = p,
               !.time = @ + executed_of(p) ]

\* faulty variant of SRTF_execute_process: the process is put back in the queue
\* whether it has finished or not
SRTF_execute_process_requeued(S, cfg, i) ==
    LET p == execute(S.processes[i], cfg.time_slice, 0)
        T == [ S EXCEPT !.ready_queue = remove(@, i),
                        !.processes[i] = p,
                        !.time = @ + executed_of(p) ]
    IN  SRTF_add_to_ready_queue(T, i)

\* SRTFScheduler.execute_process: process.execute(time_slice) leaves current_time at 0
SRTF_execute_process(S, cfg, i) ==
    LET p == execute(S.processes[i], cfg.time_slice, 0)
        T == [ S EXCEPT !.ready_queue = remove(@, i),
                        !.processes[i] = p,
                        !.time = @ + executed_of(p) ]
    IN  IF ~terminated(T, i) THEN SRTF_add_to_ready_queue(T, i) ELSE T

\* faulty variant of MLFQ_execute_process: the process is put back in the queue of
\* its old level and demoted afterwards
MLFQ_execute_process_demoted_late(S, cfg, i) ==
    LET queue_level == S.process_queue_map[S.processes[i].pid]
        quantum == quantum_for_queue(cfg, queue_level)
        start_remaining == S.processes[i].remaining_time
        p == execute(S.processes[i], quantum, S.time)
        T == [ S EXCEPT !.queues[queue_level] = remove(@, i),
                        !.ready_queue = remove(@, i),
                        !.processes[i] = p,
                        !.time_since_last_boost = @ + executed_of(p),
                        !.time = @ + executed_of(p) ]
        time_used == start_remaining - p.remaining_time
        U == MLFQ_add_to_ready_queue(T, i)
    IN  IF ~terminated(T, i)
        THEN IF time_used >= quantum THEN demote_process(U, cfg, i) ELSE U
        ELSE T

\* MLFQScheduler.execute_process
MLFQ_execute_process(S, cfg, i) ==
    LET queue_level == S.process_queue_map[S.processes[i].pid]
        quantum == quantum_for_queue(cfg, queue_level)
        start_remaining == S.processes[i].remaining_time
        p == execute(S.processes[i], quantum, S.time)
        T == [ S EXCEPT !.queues[queue_level] = remove(@, i),
                        !.ready_queue = remove(@, i),
                        !.processes[i] = p,
                        !.time_since_last_boost = @ + executed_of(p),
                        !.time = @ + executed_of(p) ]
        time_used == start_remaining - p.remaining_time
    IN  IF ~terminated(T, i)
        THEN MLFQ_add_to_ready_queue(
                 IF time_used >= quantum THEN demote_process(T, cfg, i) ELSE T, i)
        ELSE T

\* ----------------------------------------------------------------- Scheduler
RECURSIVE check_arrivals_from(_, _, _, _)
\* Scheduler.check_arrivals: the loop over self.processes from index i on
check_arrivals_from(pol, S, i, current_time) ==
    IF i > Len(S.processes) THEN S
    ELSE LET p == S.processes[i] IN
         IF p.state = "NEW" /\ p.arrival_time <= current_time
         THEN check_arrivals_from(
                  pol,
                  add_to_ready_queue(
                      pol, [S EXCEPT !.processes[i] = activate(p, current_time)], i),
                  i + 1, current_time)
         ELSE check_arrivals_from(pol, S, i + 1, current_time)

\* Scheduler.check_arrivals
check_arrivals(pol, S, current_time) == check_arrivals_from(pol, S, 1, current_time)

\* faulty variant of next_arrival_of: the nearest arrival time of any process
next_arrival_of_any(procs) ==
    SetMin({ procs[i].arrival_time : i \in 1..Len(procs) })

\* Scheduler.run: the arrival time of the nearest process still NEW (None: none left)
next_arrival_of(procs) ==
    LET new == { i \in 1..Len(procs) : procs[i].state = "NEW" }
    IN  IF new = {} THEN None ELSE SetMin({ procs[i].arrival_time : i \in new })

\* faulty variant of the idle gap: measured after the clock was advanced to the arrival
idle_gap_after_advance(next_arrival, now) == next_arrival - next_arrival

\* Scheduler.run: the idle gap charged when nothing is selected
idle_gap(next_arrival, now) == next_arrival - now

\* Scheduler.run: the count of processes that are not TERMINATED
count_active(procs) ==
    Cardinality({ i \in 1..Len(procs) : procs[i].state # "TERMINATED" })

RECURSIVE SumOver(_, _, _)
\* sum of f[i] for i in lo..hi
SumOver(f, lo, hi) == IF lo > hi THEN 0 ELSE f[lo] + SumOver(f, lo + 1, hi)

\* Scheduler.calculate_statistics: the record returned, over the processes after
\* calculate_metrics.  A quotient a / b is kept as the pair [num |-> a, den |-> b].
calculate_statistics(pol, procs, now, idle) ==
    LET n == Len(procs)
        completed == Cardinality({ i \in 1..n : procs[i].state = "TERMINATED" })
        total_turnaround == SumOver([ i \in 1..n |-> procs[i].turnaround_time ], 1, n)
        total_waiting == SumOver([ i \in 1..n |-> procs[i].waiting_time ], 1, n)
        total_response ==
            SumOver([ i \in 1..n |-> IF procs[i].response_time # None
                                     THEN procs[i].response_time ELSE 0 ], 1, n)
        total_context_switches ==
            SumOver([ i \in 1..n |-> procs[i].context_switches ], 1, n)
    IN  [ scheduler_name         |-> pol,
          processes              |-> [ i \in 1..n |-> metrics_row(procs[i]) ],
          total_processes        |-> n,
          completed_processes    |-> completed,
          avg_turnaround_time    |-> [num |-> total_turnaround, den |-> n],
          avg_waiting_time       |-> [num |-> total_waiting, den |-> n],
          avg_response_time      |-> [num |-> total_response, den |-> n],
          throughput             |-> IF now > 0 THEN [num |-> completed, den |-> now]
                                     ELSE [num |-> 0, den |-> 1],
          cpu_utilization        |-> IF now > 0 THEN [num |-> now - idle, den |-> now]
                                     ELSE [num |-> 0, den |-> 1],
          total_execution_time   |-> now,
          total_context_switches |-> total_context_switches ]

\* -------------------------------------------------------------------- state
VARIABLES
    schedulers,              \* the schedulers a driver runs one after the other
    run_idx,                 \* index in schedulers of the scheduler now running
    cfg,                     \* constructor arguments of the running scheduler
    processes,               \* Scheduler.processes
    ready_queue,             \* Scheduler.ready_queue (indices into processes)
    priority_queues,         \* RRPriorityScheduler.priority_queues
    queues,                  \* MLFQScheduler.queues
    process_queue_map,       \* MLFQScheduler.process_queue_map (pid -> level)
    time_since_last_boost,   \* MLFQScheduler.time_since_last_boost
    current_process,         \* Scheduler.current_process (index, or None)
    time,                    \* Scheduler.time, the simulated clock
    total_idle_time,         \* Scheduler.total_idle_time
    last_context_switch_time,\* Scheduler.last_context_switch_time
    next_process,            \* run(): local next_process
    active_processes,        \* run(): local active_processes
    pc,                      \* position in run(): loop, schedule, dispatch, execute, done
    results,                 \* the statistics records returned so far, one per scheduler
    id_counter,              \* Process.id_counter
    building,                \* the constructions of workloads under way, per thread
    reuse,                   \* the driver runs its scheduler again after reset()
    until_time,              \* run(): argument until_time (None: no time limit)
    trace,                   \* history: one entry per dispatch of the running scheduler
    boost_clock              \* history: the clock at the last MLFQ boost (0 at the start)

vars == << schedulers, run_idx, cfg, processes, ready_queue, priority_queues, queues,
           process_queue_map, time_since_last_boost, current_process, time,
           total_idle_time, last_context_switch_time, next_process, active_processes,
           pc, results, id_counter, building, reuse, until_time, trace,
           boost_clock >>

policy == schedulers[run_idx]

\* the running scheduler object as a record
Sched ==
    [ processes             |-> processes,
      ready_queue           |-> ready_queue,
      priority_queues       |-> priority_queues,
      queues                |-> queues,
      process_queue_map     |-> process_queue_map,
      time_since_last_boost |-> time_since_last_boost,
      time                  |-> time ]

\* the scheduler object S becomes the state
Install(S) ==
    /\ processes' = S.processes
    /\ ready_queue' = S.ready_queue
    /\ priority_queues' = S.priority_queues
    /\ queues' = S.queues
    /\ process_queue_map' = S.process_queue_map
    /\ time_since_last_boost' = S.time_since_last_boost
    /\ time' = S.time

\* ------------------------------------------------------------------- inputs
\* process descriptors {arrival_time >= 0, burst_time > 0, priority}
Descriptors ==
    [ arrival_time : { Ticks(a) : a \in 0..MaxArrival },
      burst_time   : { Ticks(b) : b \in 1..MaxBurst },
      priority     : 0..MaxPriority ]

Desc(a, b) == [arrival_time |-> Ticks(a), burst_time |-> Ticks(b), priority |-> 0]

\* the example workload of the specification: P1(0,5), P2(1,3), P3(2,1)
ExampleWorkload == << Desc(0, 5), Desc(1, 3), Desc(2, 1) >>

\* the example workload with its processes listed in every order
ExampleOrders ==
    { [ i \in 1..3 |-> ExampleWorkload[f[i]] ] : f \in Permutations(1..3) }

\* a single process that arrives at time 10
SingleLateWorkloads == { << Desc(10, b) >> : b \in 1..MaxBurst }

Workloads ==
    UNION { [1..n -> Descriptors] : n \in 1..MaxProcs }
      \cup ExampleOrders \cup SingleLateWorkloads

\* the lists of schedulers of a driver: one scheduler, FCFS followed by SJN, or
\* SRTF twice (run_all_schedulers runs its schedulers in sequence, each on fresh
\* copies)
SchedulerLists ==
    { <<p>> : p \in Policies } \cup { <<"FCFS", "SJN">>, <<"SRTF", "SRTF">> }

\* the runs of a driver that runs one scheduler, calls reset() on it and runs it
\* again: the same scheduler twice
ResetLists == { <<p, p>> : p \in Policies }

\* the workloads such a driver is given
ResetWorkloads == { w \in Workloads : Len(w) <= 2 } \cup ExampleOrders

\* the values of run()'s argument until_time: no limit, a limit the clock has
\* reached at the start, a limit reached during the run
UntilTimes == { None, 0, Ticks(MaxLimit) }

NoCfg ==
    [ time_quantum |-> None, time_slice |-> None, num_queues |-> None,
      base_quantum |-> None, boost_interval |-> None ]

\* the constructor arguments the model draws for a scheduler of each class
Configs(pol) ==
    CASE pol \in {"FCFS", "SJN"} -> { NoCfg }
      [] pol = "RR"   -> { [NoCfg EXCEPT !.time_quantum = Ticks(q)] : q \in {1, 2} }
      [] pol = "RRP"  -> { [NoCfg EXCEPT !.time_quantum = Ticks(2)] }
      [] pol = "SRTF" -> { [NoCfg EXCEPT !.time_slice = Ticks(1)] }
      [] pol = "MLFQ" -> { [NoCfg EXCEPT !.num_queues = c[1],
                                         !.base_quantum = Ticks(c[2]),
                                         !.boost_interval = Ticks(c[3])] :
                           c \in { <<3, 2, 50>>, <<3, 1, 3>>, <<2, 1, 50>> } }

\* MLFQScheduler.__init__: self.queues
EmptyQueues(pol, c) ==
    IF pol = "MLFQ" THEN [ l \in 0..(c.num_queues - 1) |-> <<>> ] ELSE <<>>

\* Scheduler.__init__ (and the subclasses'), add_processes, and the first two
\* statements of run(): a scheduler of class pol over fresh processes for w
StartRun(list, idx, c, w, first_pid) ==
    /\ schedulers = list
    /\ run_idx = idx
    /\ cfg = c
    /\ processes = [ i \in 1..Len(w) |->
                       NewProcess(first_pid + i - 1, w[i].arrival_time,
                                  w[i].burst_time, w[i].priority) ]
    /\ ready_queue = <<>>
    /\ priority_queues = <<>>
    /\ queues = EmptyQueues(list[idx], c)
    /\ process_queue_map = <<>>
    /\ time_since_last_boost = 0
    /\ current_process = None
    /\ time = 0
    /\ total_idle_time = 0
    /\ last_context_switch_time = 0
    /\ next_process = None
    /\ active_processes = Len(w)
    /\ pc = "loop"
    /\ id_counter = first_pid + Len(w) - 1
    /\ building = <<>>
    /\ trace = <<>>
    /\ boost_clock = 0

\* priority is read by RRPriorityScheduler only: it varies only where RRP runs;
\* run_all_schedulers calls run() without a time limit
Init ==
    \E list \in SchedulerLists \cup ResetLists, w \in Workloads :
        /\ (\A k \in DOMAIN list : list[k] # "RRP") => \A i \in DOMAIN w : w[i].priority = 0
        /\ \E c \in Configs(list[1]) : StartRun(list, 1, c, w, 1)
        /\ until_time \in UntilTimes
        /\ Len(list) > 1 => until_time = None
        /\ reuse \in BOOLEAN
        /\ IF reuse THEN list \in ResetLists /\ w \in ResetWorkloads
                    ELSE list \in SchedulerLists
        /\ results = <<>>

\* ------------------------------------------------------------------ actions
\* faulty variant of LimitReached: the clock has to pass the limit
LimitReached_strict == until_time # None /\ time > until_time

\* run(): the time limit is set and the clock has reached it
LimitReached == until_time # None /\ time >= until_time

\* run(): the loop test and self.check_arrivals(self.time)
CheckArrivals ==
    /\ pc = "loop"
    /\ active_processes > 0
    /\ ~LimitReached
    /\ Install(check_arrivals(policy, Sched, time))
    /\ pc' = "schedule"
    /\ UNCHANGED << schedulers, run_idx, cfg, current_process, total_idle_time,
                    last_context_switch_time, next_process, active_processes,
                    results, id_counter, building, reuse, until_time, trace, boost_clock >>

\* run(): next_process = self.schedule()
Schedule ==
    /\ pc = "schedule"
    /\ LET S == IF policy = "MLFQ" THEN MLFQ_boosted(Sched, cfg) ELSE Sched IN
       /\ Install(S)
       /\ next_process' =
            CASE policy = "FCFS" -> FCFS_schedule(S)
              [] policy = "RR"   -> RR_schedule(S)
              [] policy = "RRP"  -> RRP_schedule(S)
              [] policy = "SJN"  -> SJN_schedule(S)
              [] policy = "SRTF" -> SRTF_schedule(S)
              [] policy = "MLFQ" -> MLFQ_schedule(S, cfg)
       /\ boost_clock' =
            IF policy = "MLFQ" /\ time_since_last_boost >= cfg.boost_interval
            THEN time ELSE boost_clock
    /\ pc' = "dispatch"
    /\ UNCHANGED << schedulers, run_idx, cfg, current_process, total_idle_time,
                    last_context_switch_time, active_processes, results,
                    id_counter, building, reuse, until_time, trace >>

\* run(): nothing selected and a process is still to arrive: advance the clock
IdleAdvance ==
    /\ pc = "dispatch"
    /\ next_process = None
    /\ next_arrival_of(processes) # None
    /\ total_idle_time' = total_idle_time + idle_gap(next_arrival_of(processes), time)
    /\ time' = next_arrival_of(processes)
    /\ pc' = "loop"
    /\ UNCHANGED << schedulers, run_idx, cfg, processes, ready_queue, priority_queues,
                    queues, process_queue_map, time_since_last_boost, current_process,
                    last_context_switch_time, next_process, active_processes,
                    results, id_counter, building, reuse, until_time, trace, boost_clock >>

\* faulty variant of ContextSwitch: the switch is performed for every selection,
\* the current process included
ContextSwitch_always ==
    /\ pc = "dispatch"
    /\ next_process # None
    /\ processes' = IF current_process # None
                    THEN [processes EXCEPT ![current_process] = preempt(@)]
                    ELSE processes
    /\ time' = time + context_switch_overhead
    /\ last_context_switch_time' = time'
    /\ current_process' = next_process
    /\ pc' = "execute"
    /\ UNCHANGED << schedulers, run_idx, cfg, ready_queue, priority_queues, queues,
                    process_queue_map, time_since_last_boost, total_idle_time,
                    next_process, active_processes, results, id_counter, building, reuse,
                    until_time, trace, boost_clock >>

\* Scheduler.context_switch(self.current_process, next_process)
ContextSwitch ==
    /\ pc = "dispatch"
    /\ next_process # None
    /\ current_process # next_process
    /\ processes' = IF current_process # None
                    THEN [processes EXCEPT ![current_process] = preempt(@)]
                    ELSE processes
    /\ time' = time + context_switch_overhead
    /\ last_context_switch_time' = time'
    /\ current_process' = next_process
    /\ pc' = "execute"
    /\ UNCHANGED << schedulers, run_idx, cfg, ready_queue, priority_queues, queues,
                    process_queue_map, time_since_last_boost, total_idle_time,
                    next_process, active_processes, results, id_counter, building, reuse,
                    until_time, trace, boost_clock >>

\* the processes that have been admitted and are not terminated
Admitted(procs) == { i \in 1..Len(procs) : procs[i].state \in {"READY", "RUNNING"} }

\* run(): self.execute_process(next_process) and the recount of active processes;
\* `after` is the scheduler object once execute_process has returned
Dispatched(after) ==
    \E S \in { after } :
    /\ Len(trace) < MaxDispatches
    /\ Install(S)
    /\ active_processes' = count_active(S.processes)
    /\ trace' = Append(trace,
                  [ proc       |-> next_process,
                    start      |-> time,
                    executed   |-> executed_of(S.processes[next_process]),
                    terminated |-> S.processes[next_process].state = "TERMINATED",
                    n_start    |-> Cardinality(Admitted(processes)),
                    n_end      |-> Cardinality(Admitted(S.processes)) ])
    /\ pc' = "loop"
    /\ UNCHANGED << schedulers, run_idx, cfg, current_process, total_idle_time,
                    last_context_switch_time, next_process, results, id_counter,
                    building, reuse, until_time,
                    boost_clock >>

\* run() reaches self.execute_process: after a context switch, or at once when the
\* selected process is the current one
AtExecute ==
    IF pc = "dispatch"
    THEN next_process # None /\ current_process = next_process
    ELSE pc = "execute"

ExecuteFCFS ==
    /\ AtExecute /\ policy = "FCFS"
    /\ Dispatched(FCFS_execute_process(Sched, next_process))

ExecuteRR ==
    /\ AtExecute /\ policy = "RR"
    /\ Dispatched(RR_execute_process(Sched, cfg, next_process))

ExecuteRRP ==
    /\ AtExecute /\ policy = "RRP"
    /\ Dispatched(RRP_execute_process(Sched, cfg, next_process))

ExecuteSJN ==
    /\ AtExecute /\ policy = "SJN"
    /\ Dispatched(SJN_execute_process(Sched, next_process))

ExecuteSRTF ==
    /\ AtExecute /\ policy = "SRTF"
    /\ Dispatched(SRTF_execute_process(Sched, cfg, next_process))

ExecuteMLFQ ==
    /\ AtExecute /\ policy = "MLFQ"
    /\ Dispatched(MLFQ_execute_process(Sched, cfg, next_process))

\* run() leaves the loop (no active process, the time limit reached, or nothing
\* selected and nothing left to arrive) and returns self.calculate_statistics()
LoopExit ==
    IF pc = "loop"
    THEN IF active_processes > 0 THEN LimitReached ELSE TRUE
    ELSE pc = "dispatch" /\ next_process = None /\ next_arrival_of(processes) = None

Finish ==
    /\ LoopExit
    /\ processes' = [ i \in 1..Len(processes) |-> calculate_metrics(processes[i], time) ]
    /\ results' = Append(results,
                         calculate_statistics(policy, processes', time, total_idle_time))
    /\ pc' = "done"
    /\ UNCHANGED << schedulers, run_idx, cfg, ready_queue, priority_queues, queues,
                    process_queue_map, time_since_last_boost, current_process, time,
                    total_idle_time, last_context_switch_time, next_process,
                    active_processes, id_counter, building, reuse, until_time, trace,
                    boost_clock >>

\* run_all_schedulers: the next scheduler of the list runs on fresh copies of the
\* processes (same descriptors, new pids)
NextScheduler ==
    /\ pc = "done"
    /\ run_idx < Len(schedulers)
    /\ ~reuse
    /\ \E c \in Configs(schedulers[run_idx + 1]) :
         /\ schedulers' = schedulers
         /\ run_idx' = run_idx + 1
         /\ cfg' = c
         /\ processes' = [ i \in 1..Len(processes) |->
                             NewProcess(id_counter + i, processes[i].arrival_time,
                                        processes[i].burst_time, processes[i].priority) ]
         /\ ready_queue' = <<>>
         /\ priority_queues' = <<>>
         /\ queues' = EmptyQueues(schedulers[run_idx + 1], c)
         /\ process_queue_map' = <<>>
         /\ time_since_last_boost' = 0
         /\ current_process' = None
         /\ time' = 0
         /\ total_idle_time' = 0
         /\ last_context_switch_time' = 0
         /\ next_process' = None
         /\ active_processes' = Len(processes)
         /\ pc' = "loop"
         /\ id_counter' = id_counter + Len(processes)
         /\ building' = building
         /\ reuse' = reuse
         /\ until_time' = None
         /\ trace' = <<>>
         /\ boost_clock' = 0
    /\ UNCHANGED results

\* the driver calls reset() on its scheduler (Scheduler.reset and the reset of
\* its class) and run() again, on the same process objects
ResetAndRun ==
    /\ pc = "done"
    /\ run_idx < Len(schedulers)
    /\ reuse
    /\ run_idx' = run_idx + 1
    /\ processes' = [ i \in 1..Len(processes) |-> reset_process(processes[i]) ]
    /\ ready_queue' = <<>>
    /\ priority_queues' = <<>>
    /\ queues' = EmptyQueues(policy, cfg)
    /\ process_queue_map' = <<>>
    /\ time_since_last_boost' = IF policy = "MLFQ" THEN 0 ELSE time_since_last_boost
    /\ current_process' = None
    /\ time' = 0
    /\ total_idle_time' = 0
    /\ last_context_switch_time' = 0
    /\ next_process' = None
    /\ active_processes' = Len(processes)
    /\ pc' = "loop"
    /\ trace' = <<>>
    /\ boost_clock' = 0
    /\ UNCHANGED << schedulers, cfg, results, id_counter, building, reuse, until_time >>

Next ==
    \/ CheckArrivals
    \/ Schedule
    \/ IdleAdvance
    \/ ContextSwitch
    \/ ExecuteFCFS
    \/ ExecuteRR
    \/ ExecuteRRP
    \/ ExecuteSJN
    \/ ExecuteSRTF
    \/ ExecuteMLFQ
    \/ Finish
    \/ NextScheduler
    \/ ResetAndRun

Spec == Init /\ [][Next]_vars

\* ---------------------------------------------------------- malformed inputs
\* workloads with a negative arrival_time or a burst_time that is not positive
\* (Process.__init__ stores whatever it is given)
MalformedWorkloads ==
    { << Desc(-1, 1) >>, << Desc(0, 0) >>, << Desc(0, 1), Desc(1, 0) >> }

\* constructor arguments with a quantum, time slice or base quantum of 0
\* (the constructors store whatever they are given)
MalformedConfigs(pol) ==
    CASE pol \in {"FCFS", "SJN"} -> {}
      [] pol \in {"RR", "RRP"} -> { [NoCfg EXCEPT !.time_quantum = 0] }
      [] pol = "SRTF" -> { [NoCfg EXCEPT !.time_slice = 0] }
      [] pol = "MLFQ" -> { [NoCfg EXCEPT !.num_queues = 3, !.base_quantum = 0,
                                         !.boost_interval = Ticks(50)] }

\* a scheduler over a malformed workload, or a malformed scheduler over a
\* well-formed workload of one process
InitMalformed ==
    /\ \E pol \in Policies :
          \/ \E w \in MalformedWorkloads, c \in Configs(pol) :
                 StartRun(<<pol>>, 1, c, w, 1)
          \/ \E c \in MalformedConfigs(pol), b \in 1..MaxBurst :
                 StartRun(<<pol>>, 1, c, << Desc(0, b) >>, 1)
    /\ until_time = None
    /\ reuse = FALSE
    /\ results = <<>>

\* the driver over any input, well-formed or not
SpecAnyInput == (Init \/ InitMalformed) /\ [][Next]_vars

\* ------------------------------------------- concurrent workload construction
\* the threads that construct one workload each
Threads == 1..2

\* Process.__init__, "Process.id_counter += 1": thread t reads the counter
ConstructLoad(t) ==
    /\ pc = "construct"
    /\ building[t].at = "load"
    /\ Len(building[t].pids) < MaxProcs
    /\ building' = [building EXCEPT ![t].at = "store", ![t].loaded = id_counter]
    /\ UNCHANGED << schedulers, run_idx, cfg, processes, ready_queue, priority_queues,
                    queues, process_queue_map, time_since_last_boost, current_process,
                    time, total_idle_time, last_context_switch_time, next_process,
                    active_processes, pc, results, id_counter, reuse, until_time, trace,
                    boost_clock >>

\* Process.__init__, "Process.id_counter += 1": thread t writes the sum back
ConstructStore(t) ==
    /\ pc = "construct"
    /\ building[t].at = "store"
    /\ id_counter' = building[t].loaded + 1
    /\ building' = [building EXCEPT ![t].at = "assign"]
    /\ UNCHANGED << schedulers, run_idx, cfg, processes, ready_queue, priority_queues,
                    queues, process_queue_map, time_since_last_boost, current_process,
                    time, total_idle_time, last_context_switch_time, next_process,
                    active_processes, pc, results, reuse, until_time, trace, boost_clock >>

\* Process.__init__, "self.pid = Process.id_counter": thread t reads the counter
\* again for the pid of its new process
ConstructAssign(t) ==
    /\ pc = "construct"
    /\ building[t].at = "assign"
    /\ building' = [building EXCEPT ![t].at = "load",
                                    ![t].pids = Append(@, id_counter)]
    /\ UNCHANGED << schedulers, run_idx, cfg, processes, ready_queue, priority_queues,
                    queues, process_queue_map, time_since_last_boost, current_process,
                    time, total_idle_time, last_context_switch_time, next_process,
                    active_processes, pc, results, id_counter, reuse, until_time, trace,
                    boost_clock >>

\* two threads, each about to construct the processes of its own workload; no
\* scheduler runs meanwhile
InitConstruct ==
    /\ schedulers = <<"FCFS">> /\ run_idx = 1 /\ cfg = NoCfg
    /\ processes = <<>> /\ ready_queue = <<>> /\ priority_queues = <<>>
    /\ queues = <<>> /\ process_queue_map = <<>> /\ time_since_last_boost = 0
    /\ current_process = None /\ time = 0 /\ total_idle_time = 0
    /\ last_context_switch_time = 0 /\ next_process = None /\ active_processes = 0
    /\ pc = "construct" /\ results = <<>> /\ until_time = None /\ reuse = FALSE
    /\ trace = <<>> /\ boost_clock = 0
    /\ id_counter \in 0..1
    /\ building = [ t \in Threads |-> [ at |-> "load", loaded |-> 0, pids |-> <<>> ] ]

NextConstruct ==
    \E t \in Threads : ConstructLoad(t) \/ ConstructStore(t) \/ ConstructAssign(t)

\* the interleavings of two threads constructing processes
SpecConstruct == InitConstruct /\ [][NextConstruct]_vars

\* run() is a sequential loop that nothing outside it can suspend: whenever a step
\* of the driver is possible, one is eventually taken
FairSpec == Spec /\ WF_vars(Next)

\* ------------------------------------------------------- views of the state
Done == pc = "done"

\* the statistics record of the run that has just finished
Stats == results[run_idx]

\* the descriptors the running scheduler's processes were built from
WorkloadOf(procs) ==
    [ i \in 1..Len(procs) |->
        [ arrival_time |-> procs[i].arrival_time,
          burst_time   |-> procs[i].burst_time,
          priority     |-> procs[i].priority ] ]

Terminated(i) == processes[i].state = "TERMINATED"

\* position in the trace of the dispatch that terminated process i (0: none yet)
TerminatedAt(i) ==
    LET ks == { k \in DOMAIN trace : trace[k].proc = i /\ trace[k].terminated }
    IN  IF ks = {} THEN 0 ELSE SetMin(ks)

\* process i reached TERMINATED before process j did
TerminatesBefore(i, j) ==
    /\ TerminatedAt(i) > 0
    /\ TerminatedAt(j) > 0
    /\ TerminatedAt(i) < TerminatedAt(j)

DistinctArrivals ==
    \A i, j \in 1..Len(processes) :
        i # j => processes[i].arrival_time # processes[j].arrival_time

SameArrivals ==
    \A i, j \in 1..Len(processes) :
        processes[i].arrival_time = processes[j].arrival_time

Abs(x) == IF x >= 0 THEN x ELSE 0 - x

\* ------------------------------------------------------------------- claims

\* C1: after run() finishes, every TERMINATED process is reported with
\* turnaround_time = waiting_time + burst_time, under every policy.
C1_Conservation ==
    Done => \A i \in 1..Len(processes) :
                Terminated(i) =>
                    Stats.processes[i].turnaround_time
                        = Stats.processes[i].waiting_time + Stats.processes[i].burst_time

\* C2: the accumulated ready time of a process is never negative, and every
\* completed process is reported with waiting_time >= 0 and response_time >= 0.
C2_NonNegative ==
    /\ \A i \in 1..Len(processes) : processes[i].time_in_ready_queue >= 0
    /\ Done => \A i \in 1..Len(processes) :
                   Terminated(i) =>
                       /\ Stats.processes[i].waiting_time >= 0
                       /\ Stats.processes[i].response_time >= 0

\* C3: every completed process is reported with turnaround_time >= burst_time.
C3_TurnaroundAtLeastBurst ==
    Done => \A i \in 1..Len(processes) :
                Terminated(i) =>
                    Stats.processes[i].turnaround_time >= Stats.processes[i].burst_time

\* C4: under FCFS with pairwise distinct arrival times, processes reach
\* TERMINATED in the order of their arrival times, whatever their order in the
\* input list.
C4_FCFSCompletionOrder ==
    (policy = "FCFS" /\ DistinctArrivals) =>
        \A i, j \in 1..Len(processes) :
            TerminatesBefore(i, j) =>
                processes[i].arrival_time < processes[j].arrival_time

\* C5: FCFS on P1(0,5), P2(1,3), P3(2,1) terminates P1, P2, P3 in this order and
\* reports the waiting times 0, 4 and 6, up to the context-switch overhead of
\* the three switches of the run.
C5_FCFSExample ==
    (Done /\ policy = "FCFS" /\ WorkloadOf(processes) = ExampleWorkload) =>
        /\ TerminatesBefore(1, 2) /\ TerminatesBefore(2, 3)
        /\ Abs(Stats.processes[1].waiting_time - Ticks(0)) <= 3 * context_switch_overhead
        /\ Abs(Stats.processes[2].waiting_time - Ticks(4)) <= 3 * context_switch_overhead
        /\ Abs(Stats.processes[3].waiting_time - Ticks(6)) <= 3 * context_switch_overhead

RRExampleDone ==
    /\ Done /\ policy = "RR" /\ cfg.time_quantum = Ticks(2) /\ until_time = None
    /\ WorkloadOf(processes) = ExampleWorkload

\* C6: Round Robin with quantum 2 on P1(0,5), P2(1,3), P3(2,1) terminates P3
\* before P2: the completion order is not the FCFS order P1, P2, P3.
C6_RRExample ==
    RRExampleDone =>
        /\ TerminatesBefore(3, 2)
        /\ ~(TerminatesBefore(1, 2) /\ TerminatesBefore(2, 3))

\* C6 witness: the Round Robin run of the example has finished, all three terminated
C6_Witness ==
    RRExampleDone /\ \A i \in 1..3 : Terminated(i)

\* the clock at the end of dispatch k of the trace
EndOf(k) == trace[k].start + trace[k].executed

\* dispatches j < k of the trace are consecutive dispatches of one process
ConsecutiveDispatches(j, k) ==
    /\ j < k
    /\ trace[j].proc = trace[k].proc
    /\ \A m \in (j + 1)..(k - 1) : trace[m].proc # trace[j].proc

\* C7: under Round Robin with quantum Q and N admitted, non-terminated
\* processes, the time between the end of one dispatch of a process and the
\* start of its next dispatch is at most (N-1) * (Q + context_switch_overhead).
\* N is taken as the larger of the counts at the two ends of the gap.
C7_RRGapBound ==
    policy = "RR" =>
        \A j, k \in DOMAIN trace :
            ConsecutiveDispatches(j, k) =>
                trace[k].start - EndOf(j)
                    <= (Max2(trace[j].n_end, trace[k].n_start) - 1)
                         * (cfg.time_quantum + context_switch_overhead)

\* C7 as amended: with N the number of admitted, non-terminated processes when
\* the earlier dispatch ends, the gap is at most
\* (N-1) * (Q + context_switch_overhead) + context_switch_overhead.
C7_RRGapBoundAmended ==
    policy = "RR" =>
        \A j, k \in DOMAIN trace :
            ConsecutiveDispatches(j, k) =>
                trace[k].start - EndOf(j)
                    <= (trace[j].n_end - 1)
                         * (cfg.time_quantum + context_switch_overhead)
                       + context_switch_overhead

\* C7 witness: a process is dispatched again after another process used its
\* whole quantum in between, and the gap meets the amended bound exactly
C7_Witness ==
    /\ policy = "RR"
    /\ \E j, k \in DOMAIN trace :
         /\ ConsecutiveDispatches(j, k)
         /\ k > j + 1
         /\ trace[k].start - EndOf(j)
              = (trace[j].n_end - 1) * (cfg.time_quantum + context_switch_overhead)
                + context_switch_overhead

\* the recorded MLFQ level of process i
LevelOf(i) == process_queue_map[processes[i].pid]

\* the time executed by the dispatches that started at or after clock t
ExecutedSince(t) ==
    SumOver([ k \in DOMAIN trace |->
                IF trace[k].start >= t THEN trace[k].executed ELSE 0 ], 1, Len(trace))

\* C8: under MLFQ, while a non-terminated process sits at a level >= 1, no more
\* than boost_interval of simulated time has passed since the previous boost
\* (or the start of the run).  Idle time and context-switch overhead are left
\* out of the elapsed time, which only favours the claim.
C8_BoostWithinInterval ==
    policy = "MLFQ" =>
        \A i \in Admitted(processes) :
            LevelOf(i) >= 1 => ExecutedSince(boost_clock) <= cfg.boost_interval

\* a boost was applied by the selection that has just been made
JustBoosted == pc = "dispatch" /\ time > 0 /\ boost_clock = time

\* C8 as amended: the boost is applied by the first selection made once the
\* execution time accumulated since the previous boost has reached
\* boost_interval: after every selection the accumulated time is below
\* boost_interval, it never reaches boost_interval plus the quantum of the lowest
\* queue, and a boost leaves every non-terminated admitted process in queue 0
\* with recorded level 0.
C8_BoostAtSelection ==
    policy = "MLFQ" =>
        /\ time_since_last_boost
             < cfg.boost_interval + quantum_for_queue(cfg, cfg.num_queues - 1)
        /\ pc \in {"dispatch", "execute"} => time_since_last_boost < cfg.boost_interval
        /\ JustBoosted =>
             \A i \in Admitted(processes) : LevelOf(i) = 0 /\ InSeq(queues[0], i)

\* C8 witness: a boost has just moved a process back to queue 0 that was executed
\* at level 0 and demoted since the previous boost
C8_Witness ==
    /\ policy = "MLFQ"
    /\ JustBoosted
    /\ \E i \in Admitted(processes) :
         /\ LevelOf(i) = 0
         /\ processes[i].remaining_time < processes[i].burst_time
         /\ \E k \in DOMAIN trace :
              /\ trace[k].proc = i
              /\ trace[k].executed = cfg.base_quantum
              /\ ~trace[k].terminated

\* a / b <= c / d for quotients kept as pairs with positive denominators
LeqQ(x, y) == x.num * y.den <= y.num * x.den

FCFSThenSJNDone ==
    /\ schedulers = <<"FCFS", "SJN">> /\ run_idx = 2 /\ Done
    /\ SameArrivals

SingleLateDone ==
    /\ Done /\ until_time # 0
    /\ Len(processes) = 1
    /\ processes[1].arrival_time = Ticks(10)

\* C10: a run over a single process that arrives at time 10 ends with idle time
\* exactly 10 and cpu_utilization = 1 - 10 / total_execution_time, under every
\* policy.
C10_SingleLateIdle ==
    SingleLateDone =>
        /\ total_idle_time = Ticks(10)
        /\ Stats.total_execution_time > 0
        /\ Stats.cpu_utilization.den > 0
        /\ Stats.cpu_utilization.num * Stats.total_execution_time
             = (Stats.total_execution_time - Ticks(10)) * Stats.cpu_utilization.den

\* C10 witness: such a run has finished, its process terminated after the idle gap
C10_Witness ==
    /\ SingleLateDone
    /\ Terminated(1)
    /\ Stats.completed_processes = 1
    /\ Stats.total_execution_time > Ticks(10)

----------------------------------------------------------------------------
\* C11: two runs of the same policy with the same configuration, each on its own
\* fresh copies of the same process descriptors, return statistics records that
\* are equal in every field, the fields of every per-process row included
SameRunTwice ==
    /\ Len(schedulers) = 2 /\ schedulers[1] = schedulers[2] /\ ~reuse
    /\ run_idx = 2 /\ Done

C11_Deterministic == SameRunTwice => results[1] = results[2]

----------------------------------------------------------------------------
\* C12: in every reachable state of a run over a workload with burst_time > 0,
\* every process has 0 <= remaining_time <= burst_time, and remaining_time is 0
\* exactly when the process is TERMINATED
C12_RemainingTime ==
    \A i \in DOMAIN processes :
        /\ 0 <= processes[i].remaining_time
        /\ processes[i].remaining_time <= processes[i].burst_time
        /\ (processes[i].remaining_time = 0) <=> (processes[i].state = "TERMINATED")

\* one process is part-way through its burst after a time slice, another has
\* terminated
C12_Witness ==
    \E i, j \in DOMAIN processes :
        /\ processes[i].remaining_time > 0
        /\ processes[i].remaining_time < processes[i].burst_time
        /\ processes[j].state = "TERMINATED" /\ processes[j].remaining_time = 0

----------------------------------------------------------------------------
\* C13: for every policy, a terminated process has a finish_time that is greater
\* than or equal to its arrival_time
C13_FinishAfterArrival ==
    \A i \in DOMAIN processes :
        Terminated(i) => processes[i].finish_time >= processes[i].arrival_time

----------------------------------------------------------------------------
\* position in the trace of the first dispatch of process i (0: none yet)
FirstDispatch(i) ==
    LET ks == { k \in DOMAIN trace : trace[k].proc = i }
    IN  IF ks = {} THEN 0 ELSE SetMin(ks)

\* C14: for every policy, the response_time recorded for a process is the clock
\* at the process's first dispatch minus its arrival_time, clamped at 0
C14_ResponseTime ==
    \A i \in DOMAIN processes :
        FirstDispatch(i) > 0 =>
            processes[i].response_time =
                Max2(0, trace[FirstDispatch(i)].start - processes[i].arrival_time)

----------------------------------------------------------------------------
\* a step inside one run (NextScheduler starts the next run on fresh copies)
SameRun == run_idx' = run_idx

\* C15: within one run, once a process's response_time has been set no later
\* step (execute, preempt, metrics computation) changes it
C15_ResponseTimeStable ==
    [][ SameRun =>
          \A i \in DOMAIN processes :
              processes[i].response_time # None =>
                  processes'[i].response_time = processes[i].response_time ]_vars

\* a process has been preempted and is RUNNING again, dispatched at a later clock
\* than its first dispatch
C15_Witness ==
    \E i \in DOMAIN processes :
        LET h == processes[i].execution_history IN
        /\ processes[i].state = "RUNNING"
        /\ processes[i].context_switches >= 1
        /\ Len(h) >= 2 /\ h[Len(h)][1] > h[1][1]
        /\ processes[i].response_time = Max2(0, h[1][1] - processes[i].arrival_time)

----------------------------------------------------------------------------
\* the step is a dispatch of process i (execute_process was called on it)
DispatchOf(i) ==
    /\ Len(trace') = Len(trace) + 1
    /\ trace'[Len(trace')].proc = i

\* C16: within one run, every state change of a process is NEW->READY,
\* READY->RUNNING, RUNNING->READY, or (READY or RUNNING)->TERMINATED by a dispatch
\* that brings remaining_time to 0; only admitted, non-terminated processes are
\* dispatched, no process enters WAITING and none leaves TERMINATED
C16_StateChanges ==
    [][ SameRun =>
          \A i \in DOMAIN processes :
              LET a == processes[i].state
                  b == processes'[i].state
              IN  /\ b # "WAITING"
                  /\ DispatchOf(i) => a \in {"READY", "RUNNING"}
                  /\ a # b =>
                       \/ a = "NEW" /\ b = "READY"
                       \/ a = "READY" /\ b = "RUNNING"
                       \/ a = "RUNNING" /\ b = "READY"
                       \/ /\ a \in {"READY", "RUNNING"} /\ b = "TERMINATED"
                          /\ DispatchOf(i)
                          /\ processes'[i].remaining_time = 0 ]_vars

\* one process was preempted, dispatched again and terminated; another terminated
\* in its first dispatch
C16_Witness ==
    \E i, j \in DOMAIN processes :
        /\ Terminated(i) /\ processes[i].context_switches >= 1
        /\ Len(processes[i].execution_history) >= 2
        /\ Terminated(j) /\ Len(processes[j].execution_history) = 1

----------------------------------------------------------------------------
\* every process of the run is TERMINATED
AllTerminated == \A i \in DOMAIN processes : Terminated(i)

\* C17: with no time limit, positive quantum, time slice and base quantum, and a
\* finite workload with burst_time > 0, run() terminates under every policy,
\* and on exit every process is TERMINATED (completed_processes equals
\* total_processes)
C17_RunTerminates ==
    /\ (pc # "done" /\ until_time = None) ~> (pc = "done")
    /\ [](Done /\ until_time = None =>
            /\ AllTerminated
            /\ Stats.completed_processes = Stats.total_processes
            /\ Stats.total_processes = Len(processes))

\* a run without a time limit has returned after a process was preempted and
\* the processor had been idle
C17_Witness ==
    /\ Done /\ until_time = None
    /\ total_idle_time > 0
    /\ Len(processes) = MaxProcs
    /\ \E i \in DOMAIN processes : processes[i].context_switches >= 1
    /\ AllTerminated

----------------------------------------------------------------------------
\* C18: the clock never decreases during a run: every step of the loop (idle
\* advance, context switch, dispatch) leaves it greater than or equal to its
\* previous value, for every policy
C18_ClockMonotone == [][ SameRun => time' >= time ]_vars

\* the clock has been advanced by an idle step, by context switches and by
\* dispatches
C18_Witness ==
    /\ total_idle_time > 0
    /\ Len(trace) >= 2
    /\ \E i \in DOMAIN processes : processes[i].context_switches >= 1
    /\ time > total_idle_time + trace[1].executed + trace[2].executed

----------------------------------------------------------------------------
\* the configuration or the workload of the run is malformed
Malformed ==
    \/ \E i \in DOMAIN processes :
          processes[i].arrival_time < 0 \/ processes[i].burst_time <= 0
    \/ policy \in {"RR", "RRP"} /\ cfg.time_quantum <= 0
    \/ policy = "SRTF" /\ cfg.time_slice <= 0
    \/ policy = "MLFQ" /\ (cfg.num_queues <= 0 \/ cfg.base_quantum <= 0)

\* the run has not left its initial state: no loop step was taken, the clock is
\* 0 and every process is as constructed
Untouched ==
    /\ pc = "loop" /\ time = 0 /\ total_idle_time = 0
    /\ trace = <<>> /\ results = <<>>
    /\ current_process = None
    /\ \A i \in DOMAIN processes :
          processes[i] = NewProcess(processes[i].pid, processes[i].arrival_time,
                                    processes[i].burst_time, processes[i].priority)

\* C19: a run with a non-positive quantum, time slice or base quantum, or over a
\* workload with a negative arrival or a non-positive burst, is rejected before
\* any simulation step: the loop never starts and no clock or process state
\* changes
C19_MalformedRejected == Malformed => Untouched

----------------------------------------------------------------------------
\* the number of processes in state TERMINATED
TerminatedCount == Cardinality({ i \in DOMAIN processes : Terminated(i) })

\* C20: when run() is given a time limit L, the loop starts no iteration while
\* the clock is >= L; from the loop test with the clock at or past L the run
\* returns, whether or not processes are unfinished; and completed_processes of
\* the returned record is the number of processes TERMINATED at that moment
C20_TimeLimit ==
    /\ [](pc = "loop" /\ LimitReached => ENABLED Finish)
    /\ [](Done /\ until_time # None => Stats.completed_processes = TerminatedCount)
    /\ [][ until_time # None =>
             /\ (pc = "loop" /\ pc' = "schedule") => time < until_time
             /\ (pc = "loop" /\ LimitReached) =>
                    /\ pc' = "done"
                    /\ Len(results') = Len(results) + 1
                    /\ results'[Len(results')].completed_processes = TerminatedCount
                    /\ \A i \in DOMAIN processes :
                           processes'[i].state = processes[i].state ]_vars

\* a time-limited run has returned with the clock past the limit, one process
\* TERMINATED and another unfinished
C20_Witness ==
    /\ Done /\ until_time # None /\ time >= until_time
    /\ Stats.completed_processes = 1
    /\ Stats.total_processes = 2
    /\ \E i \in DOMAIN processes : processes[i].state \in {"READY", "RUNNING"}

----------------------------------------------------------------------------
\* the processes constructed so far: <<thread, position in its workload>>
AssignedPids ==
    UNION { { <<t, k>> : k \in DOMAIN building[t].pids } : t \in DOMAIN building }

\* C21: process identifiers stay pairwise distinct when workloads are constructed
\* concurrently: no interleaving of the constructions gives one pid to two
\* processes
C21_DistinctPids ==
    \A a, b \in AssignedPids :
        a # b => building[a[1]].pids[a[2]] # building[b[1]].pids[b[2]]

----------------------------------------------------------------------------
\* position of process i in the sequence q (0: absent)
PosIn(q, i) ==
    LET ks == { k \in DOMAIN q : q[k] = i }
    IN  IF ks = {} THEN 0 ELSE SetMin(ks)

\* the processes that were admitted and have not been dispatched yet: they stand
\* in ready_queue in the order of their admission
Waiting == { i \in DOMAIN processes :
               PosIn(ready_queue, i) > 0 /\ processes[i].execution_history = <<>> }

\* processes with the same arrival_time are admitted in the order of the input
\* list
SameArrivalInListOrder ==
    \A i, j \in Waiting :
        (processes[i].arrival_time = processes[j].arrival_time /\ i < j)
            => PosIn(ready_queue, i) < PosIn(ready_queue, j)

\* C22: processes with the same arrival_time are admitted to the ready queue in
\* the order of the input list, and a process with an earlier arrival_time is
\* never admitted after a process with a later arrival_time
C22_AdmissionOrder ==
    /\ SameArrivalInListOrder
    /\ \A i, j \in Waiting :
           processes[i].arrival_time < processes[j].arrival_time
               => PosIn(ready_queue, i) < PosIn(ready_queue, j)

----------------------------------------------------------------------------
\* the preemption counts of all processes are unchanged by the step
NoPreemptionCounted ==
    \A i \in DOMAIN processes :
        processes'[i].context_switches = processes[i].context_switches

\* C23: with a process selected, the overhead is charged to the clock exactly
\* when the selection differs from the current process (the first dispatch
\* included): the outgoing process is then preempted if it is RUNNING and the
\* selection becomes current; when the selection is the current process the
\* dispatch follows with no overhead and no preemption counted
C23_ContextSwitch ==
    [][ /\ (pc = "dispatch" /\ next_process # None /\ current_process # next_process) =>
             /\ time' = time + context_switch_overhead
             /\ current_process' = next_process
             /\ pc' = "execute"
             /\ \A i \in DOMAIN processes :
                    IF i = current_process /\ processes[i].state = "RUNNING"
                    THEN /\ processes'[i].state = "READY"
                         /\ processes'[i].context_switches =
                                processes[i].context_switches + 1
                    ELSE processes'[i] = processes[i]
        /\ (pc = "dispatch" /\ next_process # None /\ current_process = next_process) =>
             /\ DispatchOf(next_process)
             /\ time' = time + trace'[Len(trace')].executed
             /\ current_process' = current_process
             /\ NoPreemptionCounted
        /\ (pc = "execute") =>
             /\ DispatchOf(next_process)
             /\ time' = time + trace'[Len(trace')].executed
             /\ NoPreemptionCounted ]_vars

\* the first dispatch was charged the overhead, a RUNNING process was preempted
\* by a switch, and a process was dispatched twice in a row with no overhead
\* between the two dispatches
C23_Witness ==
    /\ Len(trace) >= 3
    /\ trace[1].start = context_switch_overhead
    /\ \E i \in DOMAIN processes : processes[i].context_switches >= 1
    /\ \E k \in 1..(Len(trace) - 1) :
           /\ trace[k].proc = trace[k + 1].proc
           /\ trace[k + 1].start = EndOf(k)

----------------------------------------------------------------------------
\* the time slices execute is tried with: unbounded, one and two time units
TimeSlices == { None, Ticks(1), Ticks(2) }

\* execute(time_slice, now) on process p runs it for min(remaining_time,
\* time_slice), logs (now, executed) and terminates it when nothing remains
ExecuteContract(p, time_slice, now) ==
    LET q == execute(p, time_slice, now)
        executed == IF time_slice = None \/ p.remaining_time <= time_slice
                    THEN p.remaining_time ELSE time_slice
    IN  /\ executed_of(q) = executed
        /\ q.remaining_time = p.remaining_time - executed
        /\ q.execution_history = Append(p.execution_history, <<now, executed>>)
        /\ IF q.remaining_time = 0
           THEN q.state = "TERMINATED" /\ q.finish_time = now + executed
           ELSE q.state = "RUNNING" /\ q.finish_time = p.finish_time

\* C24: execute on a READY or RUNNING process runs it for min(remaining_time,
\* time slice), decreases remaining_time by that, appends (now, executed) to the
\* execution log and, when nothing remains, sets TERMINATED and finish_time =
\* now + executed, where now is the engine's clock at the dispatch, under every
\* policy
C24_Execute ==
    /\ \A i \in Admitted(processes), ts \in TimeSlices :
           ExecuteContract(processes[i], ts, time)
    /\ \A k \in DOMAIN trace :
           LET i == trace[k].proc
               n == Cardinality({ m \in 1..k : trace[m].proc = i })
           IN  /\ processes[i].execution_history[n] =
                      << trace[k].start, trace[k].executed >>
               /\ trace[k].terminated =>
                      processes[i].finish_time = trace[k].start + trace[k].executed

----------------------------------------------------------------------------
\* run() is about to call context_switch with process i as the outgoing process
SwitchedOut(i) ==
    /\ pc = "dispatch"
    /\ next_process # None
    /\ current_process = i /\ next_process # i

\* C25: preempt changes a process only when it is RUNNING: it moves it to READY,
\* adds one to its preemption count and sets the baseline of its ready-time
\* accounting to the time of the preemption; a process in any other state is
\* left as it is
C25_Preempt ==
    \A i \in DOMAIN processes :
        LET p == processes[i]
            q == preempt(p)
        IN  IF p.state = "RUNNING"
            THEN /\ q.state = "READY"
                 /\ q.context_switches = p.context_switches + 1
                 /\ SwitchedOut(i) => q.last_state_change_time = time
            ELSE q = p

----------------------------------------------------------------------------
\* the number of places process i takes in the sequence q
CountIn(q, i) == Cardinality({ k \in DOMAIN q : q[k] = i })

\* C26: activate(now) moves a NEW process to READY and records now as the start
\* of its ready period, and changes nothing on a process in any other state; so
\* arrival detection admits a process to the ready queue at most once per run
C26_Activate ==
    /\ \A i \in DOMAIN processes :
           LET p == processes[i]
               q == activate(p, time)
           IN  IF p.state = "NEW"
               THEN /\ q.state = "READY"
                    /\ q.last_state_change_time = time
                    /\ CountIn(ready_queue, i) = 0
               ELSE q = p /\ CountIn(ready_queue, i) <= 1
    /\ LET T == check_arrivals(policy, Sched, time) IN
       \A i \in DOMAIN processes :
           IF processes[i].state = "NEW" /\ processes[i].arrival_time <= time
           THEN /\ T.processes[i].state = "READY"
                /\ CountIn(T.ready_queue, i) = 1
           ELSE /\ T.processes[i] = processes[i]
                /\ CountIn(T.ready_queue, i) = CountIn(ready_queue, i)

\* at the arrival check one process is due for admission while another was
\* admitted before and is still queued
C26_Witness ==
    /\ pc = "loop" /\ active_processes > 0 /\ ~LimitReached
    /\ \E i, j \in DOMAIN processes :
           /\ processes[i].state = "NEW" /\ processes[i].arrival_time <= time
           /\ processes[j].state \in {"READY", "RUNNING"}
           /\ CountIn(ready_queue, j) = 1
           /\ processes[j].last_state_change_time < time

----------------------------------------------------------------------------
\* C27: computing a process's final metrics twice with the same clock value
\* returns the same row both times and leaves the process (finish_time,
\* start_time, accumulated ready time, waiting_time, turnaround_time) after the
\* second call as it was after the first, for a process in any state (in every
\* state of every run, for every process, at the clock and one time unit later)
C27_MetricsIdempotent ==
    [](\A i \in DOMAIN processes, now \in { time, time + Ticks(1) } :
        LET once == calculate_metrics(processes[i], now)
            twice == calculate_metrics(once, now)
        IN  /\ twice = once
            /\ metrics_row(twice) = metrics_row(once))

\* a run stopped by its time limit: one process is READY with ready time still
\* to be accounted, another has not arrived, and the metrics are about to be
\* computed
C27_Witness ==
    /\ pc = "loop" /\ LimitReached
    /\ \E i, j \in DOMAIN processes :
           /\ processes[i].state = "READY"
           /\ processes[i].last_state_change_time < time
           /\ processes[j].state = "NEW"

----------------------------------------------------------------------------
\* the scheduler has been run, reset and run again, and the second run is done
RunResetRunDone ==
    /\ reuse /\ Len(schedulers) = 2
    /\ run_idx = 2 /\ Done

\* C28: after reset() a scheduler and its processes are back in their initial
\* state: a second run() on the same scheduler returns the same statistics
\* record as the first
C28_ResetRestores == RunResetRunDone => results[2] = results[1]

----------------------------------------------------------------------------
NonPreemptive == policy \in {"FCFS", "SJN"}

\* the dispatches of the current run that ran process i
DispatchesOf(i) == { k \in DOMAIN trace : trace[k].proc = i }

----------------------------------------------------------------------------
\* q is an initial part of r
IsPrefix(q, r) == Len(q) <= Len(r) /\ SubSeq(r, 1, Len(q)) = q

\* the step is a dispatch of the current run
DispatchStep == SameRun /\ Len(trace') = Len(trace) + 1

\* the dispatch of a Round Robin step: it runs the head of the queue for
\* min(quantum, remaining_time), and the queue afterwards is the rest of the queue
\* in its order, followed by the dispatched process when it has not terminated;
\* the next step of the loop is the arrival check
RRDispatch ==
    LET i == trace'[Len(trace')].proc
        before == processes[i].remaining_time
        ran == SetMin({ cfg.time_quantum, before })
        finished == processes'[i].state = "TERMINATED"
    IN  /\ ready_queue # <<>>
        /\ i = Head(ready_queue)
        /\ trace'[Len(trace')].executed = ran
        /\ processes'[i].remaining_time = before - ran
        /\ finished <=> (before = ran)
        /\ ready_queue' = Tail(ready_queue) \o (IF finished THEN <<>> ELSE <<i>>)
        /\ pc' = "loop"

\* the arrival check of a Round Robin step: the queue it finds stays at the front,
\* in its order, and the processes it admits (NEW before the step) go behind it
RRAdmission ==
    /\ IsPrefix(ready_queue, ready_queue')
    /\ \A k \in (Len(ready_queue) + 1)..Len(ready_queue') :
           processes[ready_queue'[k]].state = "NEW"

\* C30: under Round Robin each dispatch runs the head of the single queue for
\* min(quantum, remaining_time); a process that does not terminate is re-inserted
\* at the tail of the queue before the next arrival check, so it stands ahead of
\* the processes that arrived during its quantum, and the relative order of the
\* other queued processes is unchanged
C30_RoundRobinQueue ==
    [][ policy = "RR" =>
            /\ DispatchStep => RRDispatch
            /\ (SameRun /\ pc = "loop" /\ pc' = "schedule") => RRAdmission
            /\ (SameRun /\ ~DispatchStep /\ ~(pc = "loop" /\ pc' = "schedule")) =>
                   ready_queue' = ready_queue ]_vars

\* Round Robin, after the second dispatch: the process that ran first was put back
\* at the tail, two processes that arrived during its quantum were admitted behind
\* it, and after its next quantum it is behind them again, their order unchanged
C30_Witness ==
    /\ policy = "RR" /\ pc = "loop"
    /\ Len(trace) = 2
    /\ trace[1].proc = trace[2].proc
    /\ ~trace[2].terminated
    /\ Len(ready_queue) = 3
    /\ ready_queue[3] = trace[2].proc
    /\ \A k \in 1..2 :
        /\ processes[ready_queue[k]].arrival_time > trace[1].start
        /\ processes[ready_queue[k]].arrival_time <= EndOf(1)
    /\ ready_queue[1] < ready_queue[2]

----------------------------------------------------------------------------
\* the queue of priority value k in the dictionary pq (empty when k is no key)
LevelQueue(pq, k) == IF k \in DOMAIN pq THEN pq[k] ELSE <<>>

Priorities == 0..MaxPriority

\* the dispatch of a Round Robin with Priority step: the dispatched process is the
\* head of the queue of its priority, every queue of a higher priority is empty,
\* no admitted, non-terminated process has a higher priority, and afterwards its
\* queue is the rest of the queue followed by the process when it has not
\* terminated; the other queues are unchanged
RRPDispatch ==
    LET i == trace'[Len(trace')].proc
        pr == processes[i].priority
        finished == processes'[i].state = "TERMINATED"
    IN  /\ LevelQueue(priority_queues, pr) # <<>>
        /\ i = Head(LevelQueue(priority_queues, pr))
        /\ \A k \in Priorities : k > pr => LevelQueue(priority_queues, k) = <<>>
        /\ \A j \in Admitted(processes) : processes[j].priority <= pr
        /\ LevelQueue(priority_queues', pr) =
               Tail(LevelQueue(priority_queues, pr)) \o
                   (IF finished THEN <<>> ELSE <<i>>)
        /\ \A k \in Priorities \ {pr} :
               LevelQueue(priority_queues', k) = LevelQueue(priority_queues, k)

\* the arrival check of a Round Robin with Priority step: every queue it finds
\* stays at the front of that queue, and the admitted processes go behind it
RRPAdmission ==
    \A k \in Priorities :
        /\ IsPrefix(LevelQueue(priority_queues, k), LevelQueue(priority_queues', k))
        /\ \A n \in (Len(LevelQueue(priority_queues, k)) + 1)..
                        Len(LevelQueue(priority_queues', k)) :
               /\ processes[LevelQueue(priority_queues', k)[n]].state = "NEW"
               /\ processes[LevelQueue(priority_queues', k)[n]].priority = k

\* the selection of a Round Robin with Priority step: nothing when every queue is
\* empty, otherwise the head of the non-empty queue of the highest priority value
RRPSelection ==
    LET nonempty == { k \in Priorities : LevelQueue(priority_queues, k) # <<>> }
    IN  IF nonempty = {} THEN next_process' = None
        ELSE \E k \in nonempty :
                /\ \A m \in nonempty : m <= k
                /\ next_process' = Head(LevelQueue(priority_queues, k))

ArrivalCheckStep == SameRun /\ pc = "loop" /\ pc' = "schedule"

\* C31: under Round Robin with Priority every selection returns the head of the
\* queue of the highest priority value that has a non-empty queue: no process
\* is dispatched while an admitted, non-terminated process of strictly higher
\* priority exists, and processes of equal priority are dispatched in FIFO
\* order of their (re-)admission (a queue loses only its head, by a dispatch,
\* and gains only at its tail, by an admission or a re-admission)
C31_PriorityPrecedence ==
    [][ policy = "RRP" =>
            /\ (SameRun /\ pc = "schedule") => RRPSelection
            /\ DispatchStep => RRPDispatch
            /\ ArrivalCheckStep => RRPAdmission
            /\ (SameRun /\ ~DispatchStep /\ ~ArrivalCheckStep) =>
                   priority_queues' = priority_queues ]_vars

\* Round Robin with Priority: a process of priority 0 was dispatched and did not
\* finish, a process of priority 1 arrived during its quantum and was dispatched
\* next, ahead of it
C31_Witness ==
    /\ policy = "RRP"
    /\ \E k \in DOMAIN trace :
        /\ k > 1
        /\ ~trace[k - 1].terminated
        /\ processes[trace[k - 1].proc].priority = 0
        /\ processes[trace[k].proc].priority = 1
        /\ processes[trace[k].proc].arrival_time > trace[k - 1].start

----------------------------------------------------------------------------
\* sel is the minimum-search selection on the queue q: nothing on an empty queue,
\* otherwise the process at the first position whose remaining_time no queued
\* process undercuts
IsShortestFirst(sel, q) ==
    IF q = <<>> THEN sel = None
    ELSE \E k \in DOMAIN q :
            /\ sel = q[k]
            /\ \A m \in DOMAIN q :
                   processes[q[k]].remaining_time <= processes[q[m]].remaining_time
            /\ \A m \in 1..(k - 1) :
                   processes[q[m]].remaining_time > processes[q[k]].remaining_time

\* C32: SJN and SRTF selection both return the queued process with the minimum
\* remaining_time, and among processes of equal minimum remaining_time the one
\* nearest the front of the queue; on the same queue contents the two policies
\* select the same process, and on an empty queue both return no selection
\* (the two schedule methods applied to the queue every selection of every
\* policy finds, and the selection the run has made under the two policies)
C32_ShortestSelection ==
    /\ pc = "schedule" =>
           /\ IsShortestFirst(SJN_schedule(Sched), ready_queue)
           /\ IsShortestFirst(SRTF_schedule(Sched), ready_queue)
           /\ SJN_schedule(Sched) = SRTF_schedule(Sched)
    /\ (policy \in {"SJN", "SRTF"} /\ pc = "dispatch") =>
           IsShortestFirst(next_process, ready_queue)

\* a selection under SJN or SRTF among two queued processes of equal minimal
\* remaining time, the one at the front of the queue being the later of the
\* process list
C32_Witness ==
    /\ policy \in {"SJN", "SRTF"} /\ pc = "dispatch"
    /\ Len(ready_queue) >= 2
    /\ next_process = ready_queue[1]
    /\ \E m \in 2..Len(ready_queue) :
        /\ processes[ready_queue[m]].remaining_time =
               processes[ready_queue[1]].remaining_time
        /\ ready_queue[m] < ready_queue[1]

----------------------------------------------------------------------------
\* the remaining time process i had just before dispatch k of the trace
RemainingBefore(i, k) ==
    LET later == { m \in DOMAIN trace : m >= k /\ trace[m].proc = i }
        Sum[n \in 0..Len(trace)] ==
            IF n = 0 THEN 0
            ELSE Sum[n - 1] + (IF n \in later THEN trace[n].executed ELSE 0)
    IN  processes[i].remaining_time + Sum[Len(trace)]

\* C33: under SRTF no dispatch runs longer than the configured time slice, and
\* at the start of every dispatch the dispatched process has the smallest
\* remaining_time among all processes that have been admitted and are not
\* terminated, so a process that arrived with a shorter remaining time during
\* the previous slice is run next
C33_ShortestRemainingFirst ==
    policy = "SRTF" =>
        /\ \A k \in DOMAIN trace : trace[k].executed <= cfg.time_slice
        /\ AtExecute =>
               /\ next_process \in Admitted(processes)
               /\ \A j \in Admitted(processes) :
                      processes[next_process].remaining_time <=
                          processes[j].remaining_time
        /\ \A k \in DOMAIN trace : \A j \in DOMAIN processes :
               ( /\ k > 1
                 /\ processes[j].arrival_time > trace[k - 1].start
                 /\ processes[j].arrival_time <= EndOf(k - 1)
                 /\ \A i \in DOMAIN processes :
                        (i # j /\ processes[i].arrival_time <= EndOf(k - 1)
                               /\ RemainingBefore(i, k) > 0) =>
                            processes[j].burst_time < RemainingBefore(i, k) )
               => trace[k].proc = j

\* SRTF: a process was dispatched and did not finish in its slice, and a process
\* that arrived during the slice with a shorter remaining time was dispatched next
C33_Witness ==
    /\ policy = "SRTF"
    /\ \E k \in DOMAIN trace :
        /\ k > 1
        /\ ~trace[k - 1].terminated
        /\ trace[k].proc # trace[k - 1].proc
        /\ processes[trace[k].proc].arrival_time > trace[k - 1].start
        /\ processes[trace[k].proc].arrival_time <= EndOf(k - 1)
        /\ processes[trace[k].proc].burst_time < RemainingBefore(trace[k - 1].proc, k)

----------------------------------------------------------------------------
SelectionStep == SameRun /\ pc = "schedule" /\ pc' = "dispatch"

Levels == 0..(cfg.num_queues - 1)

\* the recorded level of process i after the step
LevelOfNext(i) == process_queue_map'[processes'[i].pid]

\* a selection with a boost: queue 0 receives the queues 1..N-1 behind its own
\* content, level by level and each in its order (N is 2 or 3 here),
\* the other queues are empty, every admitted, non-terminated process has
\* recorded level 0 and the timer is 0
BoostApplied ==
    /\ queues'[0] = IF cfg.num_queues = 2 THEN queues[0] \o queues[1]
                                           ELSE queues[0] \o queues[1] \o queues[2]
    /\ \A l \in Levels \ {0} : queues'[l] = <<>>
    /\ \A i \in Admitted(processes) : LevelOfNext(i) = 0
    /\ time_since_last_boost' = 0

\* C34: under MLFQ, when a selection is made while the time accumulated since
\* the last boost is >= boost_interval, every queue 1..N-1 is emptied into queue
\* 0 (level order, then FIFO order) before the process is chosen, every
\* non-terminated admitted process has recorded level 0 and the boost timer is 0;
\* when the accumulated time is below boost_interval, the selection changes no
\* queue, no recorded level and not the timer
C34_Boost ==
    [][ (policy = "MLFQ" /\ SelectionStep) =>
            /\ IF time_since_last_boost >= cfg.boost_interval
               THEN /\ BoostApplied
                    /\ next_process' =
                           IF queues'[0] = <<>> THEN None ELSE Head(queues'[0])
               ELSE /\ queues' = queues
                    /\ process_queue_map' = process_queue_map
                    /\ time_since_last_boost' = time_since_last_boost
            /\ ready_queue' = ready_queue
            /\ processes' = processes ]_vars

\* a boost has just left two processes in queue 0, the second of them demoted by
\* an earlier dispatch, and the selection took the head of that queue
C34_Witness ==
    /\ policy = "MLFQ"
    /\ JustBoosted
    /\ time_since_last_boost = 0
    /\ Len(queues[0]) >= 2
    /\ next_process = queues[0][1]
    /\ \E k \in DOMAIN trace :
        /\ trace[k].proc = queues[0][2]
        /\ ~trace[k].terminated
        /\ trace[k].executed >= cfg.base_quantum

----------------------------------------------------------------------------
\* the processes with a recorded level
Known == { i \in DOMAIN processes : processes[i].pid \in DOMAIN process_queue_map }

\* the dispatch of an MLFQ step, from level k: it runs min(base_quantum * 2^k,
\* remaining_time); an unfinished process gets level min(k + 1, N - 1) and goes to
\* the tail of that level's queue, a finished one keeps its recorded level and is
\* in no queue; the other queues and the other levels are unchanged
MLFQDispatch ==
    LET i == trace'[Len(trace')].proc
        k == LevelOf(i)
        before == processes[i].remaining_time
        ran == SetMin({ cfg.base_quantum * (2 ^ k), before })
        finished == processes'[i].state = "TERMINATED"
        to == IF finished THEN k ELSE SetMin({ k + 1, cfg.num_queues - 1 })
    IN  /\ i \in Known
        /\ trace'[Len(trace')].executed = ran
        /\ processes'[i].remaining_time = before - ran
        /\ finished <=> (before = ran)
        /\ LevelOfNext(i) = to
        /\ \A l \in Levels :
               queues'[l] = remove(queues[l], i) \o
                                (IF l = to /\ ~finished THEN <<i>> ELSE <<>>)
        /\ \A j \in Known \ {i} : LevelOfNext(j) = LevelOf(j)

\* C35: under MLFQ a dispatch from level k runs for min(base_quantum * 2^k,
\* remaining_time); a process that does not terminate in that dispatch has its
\* level changed to min(k+1, N-1) and is appended to the tail of that level's
\* queue, and a process's level never changes in any other way except by a
\* boost to 0
C35_Demotion ==
    [][ (policy = "MLFQ" /\ SameRun) =>
            /\ DispatchStep => MLFQDispatch
            /\ ~DispatchStep =>
                   \A j \in Known :
                       \/ LevelOfNext(j) = LevelOf(j)
                       \/ /\ SelectionStep
                          /\ time_since_last_boost >= cfg.boost_interval
                          /\ LevelOfNext(j) = 0 ]_vars

\* MLFQ: a process dispatched from the lowest level did not finish and stands
\* at the tail of the queue of that same level, behind another process
C35_Witness ==
    /\ policy = "MLFQ" /\ pc = "loop"
    /\ Len(trace) > 0
    /\ ~trace[Len(trace)].terminated
    /\ trace[Len(trace)].executed = cfg.base_quantum * (2 ^ (cfg.num_queues - 1))
    /\ LevelOf(trace[Len(trace)].proc) = cfg.num_queues - 1
    /\ Len(queues[cfg.num_queues - 1]) >= 2
    /\ queues[cfg.num_queues - 1][Len(queues[cfg.num_queues - 1])] = trace[Len(trace)].proc

----------------------------------------------------------------------------
\* the arrival check of an MLFQ step: the admitted processes (NEW before the
\* step, not yet in the map) go behind the content of queue 0 with recorded
\* level 0; the queues of the other levels are unchanged
MLFQAdmission ==
    /\ IsPrefix(queues[0], queues'[0])
    /\ \A n \in (Len(queues[0]) + 1)..Len(queues'[0]) :
           /\ processes[queues'[0][n]].state = "NEW"
           /\ queues'[0][n] \notin Known
           /\ LevelOfNext(queues'[0][n]) = 0
    /\ \A i \in DOMAIN processes :
           (processes[i].state = "NEW" /\ processes'[i].state = "READY") =>
               InSeq(queues'[0], i)
    /\ \A l \in Levels \ {0} : queues'[l] = queues[l]

\* the re-admission of an MLFQ dispatch: an unfinished process stands at the tail
\* of the queue of its recorded level
MLFQReadmission ==
    LET i == trace'[Len(trace')].proc
        q == queues'[LevelOfNext(i)]
    IN  processes'[i].state # "TERMINATED" => (q # <<>> /\ q[Len(q)] = i)

\* the MLFQ selection, on the queues as the step leaves them (after a boost, if
\* one was due): nothing when every queue is empty, otherwise the head of the
\* lowest-numbered non-empty queue
MLFQSelection ==
    LET nonempty == { l \in Levels : queues'[l] # <<>> }
    IN  IF nonempty = {} THEN next_process' = None
        ELSE \E l \in nonempty :
                /\ \A m \in nonempty : l <= m
                /\ next_process' = Head(queues'[l])

\* an MLFQ dispatch starts with its process at the head of the queue of its
\* recorded level and every queue of a lower-numbered level empty
MLFQDispatchedFromTop ==
    LET i == trace'[Len(trace')].proc
    IN  /\ i \in Known
        /\ queues[LevelOf(i)] # <<>>
        /\ i = Head(queues[LevelOf(i)])
        /\ \A l \in Levels : l < LevelOf(i) => queues[l] = <<>>

\* C36: under MLFQ a process admitted on arrival (first time seen) is placed at
\* the tail of queue 0, and a process re-admitted after a dispatch is placed at
\* the tail of the queue of its recorded level; selection always returns the
\* head of the lowest-numbered non-empty queue, so no process at level k is
\* dispatched while a queue of level < k is non-empty
C36_QueuePlacement ==
    [][ (policy = "MLFQ" /\ SameRun) =>
            /\ ArrivalCheckStep => MLFQAdmission
            /\ SelectionStep => MLFQSelection
            /\ DispatchStep => (MLFQDispatchedFromTop /\ MLFQReadmission) ]_vars

\* MLFQ: a process was demoted to level 1 by its dispatch, a process that arrived
\* during that dispatch entered queue 0 and was dispatched next, ahead of it
C36_Witness ==
    /\ policy = "MLFQ"
    /\ \E k \in DOMAIN trace :
        /\ k > 1
        /\ ~trace[k - 1].terminated
        /\ trace[k].proc # trace[k - 1].proc
        /\ FirstDispatch(trace[k].proc) = k
        /\ processes[trace[k].proc].arrival_time > trace[k - 1].start
        /\ Len(trace) = k
        /\ LevelOf(trace[k - 1].proc) = 1
        /\ InSeq(queues[1], trace[k - 1].proc)

----------------------------------------------------------------------------
Running == { i \in DOMAIN processes : processes[i].state = "RUNNING" }

\* C37: at every point of a run, under every policy, at most one process is in
\* state RUNNING, and a process in state RUNNING is the engine's current process
C37_OneRunning ==
    /\ Cardinality(Running) <= 1
    /\ \A i \in Running : current_process = i

\* a process was switched out unfinished (it has a preemption counted and is
\* READY) while another one, the current process, is RUNNING
C37_Witness ==
    /\ Running # {}
    /\ \E j \in DOMAIN processes :
        /\ processes[j].state = "READY"
        /\ processes[j].context_switches > 0
        /\ processes[j].remaining_time < processes[j].burst_time

----------------------------------------------------------------------------
RECURSIVE concat_priorities(_, _)
\* the queues of the priority values k, k+1, ... one after the other
concat_priorities(pq, k) ==
    IF k > MaxPriority THEN <<>> ELSE LevelQueue(pq, k) \o concat_priorities(pq, k + 1)

\* the per-level (per-priority) queues of the policy, one after the other
AllQueued ==
    IF policy = "MLFQ" THEN concat_levels(queues, 0, cfg.num_queues)
    ELSE concat_priorities(priority_queues, 0)

Elements(q) == { q[k] : k \in DOMAIN q }

RECURSIVE CountInLevels(_, _, _)
\* the number of occurrences of i in the queues of the keys ks of the dictionary pq
CountInLevels(pq, ks, i) ==
    IF ks = {} THEN 0
    ELSE LET k == CHOOSE x \in ks : TRUE
         IN  CountIn(pq[k], i) + CountInLevels(pq, ks \ {k}, i)

\* the number of occurrences of process i in the queue(s) the policy selects from
QueuedCount(i) ==
    CASE policy = "RRP"  -> CountInLevels(priority_queues, DOMAIN priority_queues, i)
      [] policy = "MLFQ" -> CountInLevels(queues, DOMAIN queues, i)
      [] OTHER           -> CountIn(ready_queue, i)

\* C38: at the start of every loop iteration, under every policy, the policy's
\* ready queue(s) contain each process that has been admitted and is not
\* terminated exactly once, and contain no process that is NEW or TERMINATED;
\* the selection therefore never returns a TERMINATED or not-yet-admitted process
C38_QueueContents ==
    /\ pc = "loop" =>
           /\ Elements(ready_queue) = Admitted(processes)
           /\ Len(ready_queue) = Cardinality(Admitted(processes))
           /\ policy \in {"MLFQ", "RRP"} =>
                  /\ Elements(AllQueued) = Admitted(processes)
                  /\ Len(AllQueued) = Cardinality(Admitted(processes))
    /\ (pc = "dispatch" /\ next_process # None) => next_process \in Admitted(processes)

\* the start of a loop iteration with a process queued once after an unfinished
\* dispatch, and a terminated process that is in no queue
C38_Witness ==
    /\ pc = "loop"
    /\ \E i, j \in DOMAIN processes :
        /\ processes[i].state = "TERMINATED" /\ QueuedCount(i) = 0
        /\ processes[j].state = "RUNNING" /\ QueuedCount(j) = 1

----------------------------------------------------------------------------
\* the queue the bookkeeping of the policy assigns to process i: under MLFQ the
\* queue of its recorded level, under Round Robin with Priority the queue of its
\* priority value
HomeQueue(i) ==
    IF policy = "MLFQ"
    THEN IF i \in Known THEN queues[LevelOf(i)] ELSE <<>>
    ELSE LevelQueue(priority_queues, processes[i].priority)

\* C39: under MLFQ and Round Robin with Priority, between operations the
\* tracking ready_queue holds exactly the processes held in the per-level
\* (per-priority) queues, and each queued process sits in exactly one of those
\* queues: for MLFQ the queue whose index equals its recorded level in
\* process_queue_map, for Round Robin with Priority the queue of its priority
\* (the two hold the same processes, each of them once, and each process
\* stands in the queue its level or priority assigns to it)
C39_QueuesAgree ==
    policy \in {"MLFQ", "RRP"} =>
        /\ Len(AllQueued) = Len(ready_queue)
        /\ Elements(AllQueued) = Elements(ready_queue)
        /\ Cardinality(Elements(ready_queue)) = Len(ready_queue)
        /\ \A i \in Elements(ready_queue) : InSeq(HomeQueue(i), i)

\* two processes are queued in two different per-level or per-priority queues,
\* one of them after an unfinished dispatch
C39_Witness ==
    /\ policy \in {"MLFQ", "RRP"}
    /\ Len(ready_queue) >= 2
    /\ \E i, j \in DOMAIN processes :
        /\ QueuedCount(i) = 1 /\ QueuedCount(j) = 1
        /\ HomeQueue(i) # HomeQueue(j)
        /\ processes[i].remaining_time < processes[i].burst_time

----------------------------------------------------------------------------
\* the sum of the durations logged in the execution_history of process i
LoggedTime(i) ==
    LET h == processes[i].execution_history
    IN  SumOver([ k \in DOMAIN h |-> h[k][2] ], 1, Len(h))

\* the sum of the durations logged by all processes
TotalLoggedTime ==
    SumOver([ i \in DOMAIN processes |-> LoggedTime(i) ], 1, Len(processes))

\* the number of context switches performed in the run so far: context_switch is
\* called before the first dispatch and before every dispatch of a process other
\* than the one dispatched last
SwitchesPerformed ==
    Cardinality({ k \in DOMAIN trace : k = 1 \/ trace[k].proc # trace[k - 1].proc })

\* C40: at every loop-iteration boundary of a run, under every policy, the clock
\* equals the accumulated idle time plus the sum of all executed durations in
\* all execution logs plus context_switch_overhead times the number of context
\* switches performed, and for every process the sum of its logged durations
\* equals burst_time minus remaining_time
C40_ClockAccounting ==
    pc \in {"loop", "done"} =>
        /\ time = total_idle_time + TotalLoggedTime
                      + context_switch_overhead * SwitchesPerformed
        /\ \A i \in DOMAIN processes :
               LoggedTime(i) = processes[i].burst_time - processes[i].remaining_time

\* a loop boundary after an idle period, more than one context switch and a
\* process that has run in two separate dispatches and is unfinished
C40_Witness ==
    /\ pc = "loop"
    /\ total_idle_time > 0
    /\ SwitchesPerformed >= 2
    /\ \E i \in DOMAIN processes :
        /\ Len(processes[i].execution_history) >= 2
        /\ processes[i].remaining_time > 0

=============================================================================
